---- MODULE Spec2Model ----
(***************************************************************************)
(* The CGPA prediction service of src/main.py: the startup routine that    *)
(* loads four artifacts, and the three routes GET /, GET /health and       *)
(* POST /predict (validate -> map -> encode -> reorder -> scale -> predict *)
(* -> round -> clamp -> interpret).                                        *)
(*                                                                         *)
(* Grade points are counted in thousandths (3.50 is 3500), so that a score *)
(* finer than the two decimals the service returns can be told from its    *)
(* rounding.                                                               *)
(***************************************************************************)
EXTENDS Integers, Sequences, FiniteSets, TLC

VARIABLES
    pc,              \* where the process is: loading an artifact, serving, or dead
    model,           \* the four module-level names bound by the loader
    scaler,
    label_encoders,
    feature_names,
    request,         \* the exchange in hand: the request ...
    response,        \* ... the response to it ...
    trace,           \* ... and what the handler did to produce it
    repeated         \* the client has submitted this request more than once

artifacts == <<model, scaler, label_encoders, feature_names>>
vars == <<pc, model, scaler, label_encoders, feature_names,
          request, response, trace, repeated>>

----------------------------------------------------------------------------
(* Bounds of the model.                                                    *)

\* A request body differs from the documented example body in at most
\* MaxOdd of its nine fields.
MaxOdd == 2

----------------------------------------------------------------------------
(* Python values.                                                          *)

\* A module-level name that no assignment has bound yet.
Unbound == [kind |-> "unbound"]
\* Python's None: a pickle may hold it, and health_check tests for it.
None == [kind |-> "None"]

PyInt(n) == [t |-> "int", v |-> n]
PyStr(s) == [t |-> "str", v |-> s]

\* str(x) of an int or of a str.
str(x) == IF x.t = "int" THEN ToString(x.v) ELSE x.v

\* Floats: a number of thousandths, or one of the three non-numbers.
Num(k) == [f |-> "num", v |-> k]
NaN == [f |-> "nan"]
PosInf == [f |-> "inf"]
NegInf == [f |-> "-inf"]

\* a < b on floats: every comparison with NaN is false.
FloatLt(a, b) ==
    CASE a.f = "nan" \/ b.f = "nan" -> FALSE
      [] a.f = "num" /\ b.f = "num" -> a.v < b.v
      [] a.f = "-inf" -> b.f # "-inf"
      [] a.f = "inf" -> FALSE
      [] OTHER -> b.f = "inf"

\* a >= b on floats.
FloatGe(a, b) ==
    CASE a.f = "nan" \/ b.f = "nan" -> FALSE
      [] OTHER -> ~ FloatLt(a, b)

\* min(a, b) and max(a, b) of the builtins: the first argument is kept unless
\* the second is strictly smaller (larger), so a NaN second argument is dropped.
pymin(a, b) == IF FloatLt(b, a) THEN b ELSE a
pymax(a, b) == IF FloatLt(a, b) THEN b ELSE a

\* round(x, 2): to the nearest hundredth, an exact tie to the even hundredth;
\* NaN and the infinities are returned as they are.
round2(x) ==
    IF x.f # "num" THEN x
    ELSE LET q == x.v \div 10
             r == x.v % 10
         IN  Num(10 * (CASE r < 5 -> q
                         [] r > 5 -> q + 1
                         [] OTHER -> IF q % 2 = 0 THEN q ELSE q + 1))

\* A float holds a tie between two hundredths exactly only at odd multiples of
\* one eighth; elsewhere "x.yz5" stands for a double beside the tie, whose
\* rounding the thousandths do not decide.  The artifacts below return no such
\* score.
ExactScore(x) == x.f = "num" => (x.v % 10 = 5 => x.v % 125 = 0)

Range(s) == {s[i] : i \in DOMAIN s}

----------------------------------------------------------------------------
(* The request schema.                                                     *)

AgeMin == 18
AgeMax == 30
CourseMinLength == 2
CourseMaxLength == 100

GenderLiterals == {"Male", "Female"}
YearLiterals == {"year 1", "year 2", "year 3", "year 4"}
YesNoLiterals == {"Yes", "No"}

Fields == {"age", "gender", "course", "year", "marital_status",
           "depression", "anxiety", "panic_attack", "treatment"}

\* Variant: the age bounds taken as exclusive (gt, lt for ge, le).
SchemaErrors_exclusive(body) ==
    {f \in Fields :
        CASE f = "age" ->
               ~ (body.age.t = "int" /\ body.age.v > AgeMin /\ body.age.v < AgeMax)
          [] f = "gender" -> body.gender \notin GenderLiterals
          [] f = "course" ->
               ~ (Len(body.course) >= CourseMinLength
                  /\ Len(body.course) <= CourseMaxLength)
          [] f = "year" -> body.year \notin YearLiterals
          [] OTHER -> body[f] \notin YesNoLiterals}

\* The fields of a body that fail validation.
SchemaErrors(body) ==
    {f \in Fields :
        CASE f = "age" ->
               ~ (body.age.t = "int" /\ body.age.v >= AgeMin /\ body.age.v <= AgeMax)
          [] f = "gender" -> body.gender \notin GenderLiterals
          [] f = "course" ->
               ~ (Len(body.course) >= CourseMinLength
                  /\ Len(body.course) <= CourseMaxLength)
          [] f = "year" -> body.year \notin YearLiterals
          [] OTHER -> body[f] \notin YesNoLiterals}

\* StudentInput(**body): the validated value, or the validation error.
StudentInput(body) ==
    LET errors == SchemaErrors(body)
    IN  IF errors = {}
        THEN [ok |-> TRUE,
              student |-> [age |-> body.age.v, gender |-> body.gender,
                           course |-> body.course, year |-> body.year,
                           marital_status |-> body.marital_status,
                           depression |-> body.depression,
                           anxiety |-> body.anxiety,
                           panic_attack |-> body.panic_attack,
                           treatment |-> body.treatment]]
        ELSE [ok |-> FALSE, errors |-> errors]

\* The documented example body.
Example ==
    [age |-> PyInt(21), gender |-> "Male", course |-> "Engineering",
     year |-> "year 2", marital_status |-> "No", depression |-> "No",
     anxiety |-> "Yes", panic_attack |-> "No", treatment |-> "No"]

Ten == "abcdefghij"
Course100 == Ten \o Ten \o Ten \o Ten \o Ten \o Ten \o Ten \o Ten \o Ten \o Ten
Course101 == Course100 \o "k"

\* What a client may send in each field: the literals, the values on both
\* sides of each boundary, and values outside the schema.
AgeInputs == {PyInt(17), PyInt(18), PyInt(21), PyInt(30), PyInt(31), PyStr("abc")}
GenderInputs == {"Male", "Female", "Other"}
CourseInputs == {"E", "IT", "Engineering", Course100, Course101}
YearInputs == {"year 1", "year 2", "year 3", "year 4", "year 5"}
YesNoInputs == {"Yes", "No", "Maybe"}

FieldInputs(f) ==
    CASE f = "age" -> AgeInputs
      [] f = "gender" -> GenderInputs
      [] f = "course" -> CourseInputs
      [] f = "year" -> YearInputs
      [] OTHER -> YesNoInputs

\* The bodies that differ from the example in at most k fields.
RECURSIVE Within(_)
Within(k) ==
    IF k = 0 THEN {Example}
    ELSE LET near == Within(k - 1)
         IN  near \cup
             UNION { UNION { {[b EXCEPT ![f] = v] : v \in FieldInputs(f)} :
                             f \in Fields } :
                     b \in near }

Bodies == Within(MaxOdd)

----------------------------------------------------------------------------
(* The feature mapper and the one-row frame.                               *)

\* The nine training-time column names, in the order the handler writes them.
Columns ==
    <<"Age", "Choose your gender", "What is your course?",
      "Your current year of Study", "Marital status",
      "Do you have Depression?", "Do you have Anxiety?",
      "Do you have Panic attack?",
      "Did you seek any specialist for a treatment?">>

\* input_data: training-time column name -> raw value.
input_data(student) ==
    [c \in Range(Columns) |->
        CASE c = "Age" -> PyInt(student.age)
          [] c = "Choose your gender" -> PyStr(student.gender)
          [] c = "What is your course?" -> PyStr(student.course)
          [] c = "Your current year of Study" -> PyStr(student.year)
          [] c = "Marital status" -> PyStr(student.marital_status)
          [] c = "Do you have Depression?" -> PyStr(student.depression)
          [] c = "Do you have Anxiety?" -> PyStr(student.anxiety)
          [] c = "Do you have Panic attack?" -> PyStr(student.panic_attack)
          [] OTHER -> PyStr(student.treatment)]

\* pd.DataFrame([input_data]): one row, the columns in the dict's order.
DataFrame(data) == [columns |-> Columns, cell |-> data]

----------------------------------------------------------------------------
(* Exceptions.                                                             *)

NoException == [type |-> "none"]
AttributeError(what) == [type |-> "AttributeError", msg |-> what]
KeyError(what) == [type |-> "KeyError", msg |-> what]
ValueError(what) == [type |-> "ValueError", msg |-> what]
HTTPException(code, detail) ==
    [type |-> "HTTPException", status_code |-> code, detail |-> detail]

----------------------------------------------------------------------------
(* The artifacts a pickle file may hold.  They are opaque to the service:  *)
(* each is modelled by the operations the handler calls on it.             *)

\* A column of the training data that no request carries.
TargetColumn == "What is your CGPA?"

CategoricalColumns == SubSeq(Columns, 2, 9)

\* classes_ of a fitted LabelEncoder: the sorted distinct training values.
FittedClasses ==
    [c \in Range(CategoricalColumns) |->
        CASE c = "Choose your gender" -> <<"Female", "Male">>
          [] c = "What is your course?" -> <<"Engineering", "IT">>
          [] c = "Your current year of Study" ->
               <<"year 1", "year 2", "year 3", "year 4">>
          [] OTHER -> <<"No", "Yes">>]

\* Training data that held no female student and no fourth-year student.
NarrowClasses ==
    [FittedClasses EXCEPT !["Choose your gender"] = <<"Male">>,
                          !["Your current year of Study"] =
                              <<"year 1", "year 2", "year 3">>]

\* label_encoders.pkl: a dict, column name -> LabelEncoder, in insertion order.
EncoderDict(keys, classes) == [kind |-> "dict", keys |-> keys, classes_ |-> classes]

LabelEncoderFiles ==
    { None,
      EncoderDict(CategoricalColumns, FittedClasses),
      \* narrower training data, and the target column label-encoded too
      EncoderDict(SubSeq(Columns, 2, 4) \o <<TargetColumn>> \o SubSeq(Columns, 5, 9),
                  [c \in Range(CategoricalColumns) \cup {TargetColumn} |->
                      IF c = TargetColumn THEN <<"3.00 - 3.49", "3.50 - 4.00">>
                      ELSE NarrowClasses[c]]),
      \* no encoder was saved for 'Marital status'
      EncoderDict(SubSeq(Columns, 2, 4) \o SubSeq(Columns, 6, 9),
                  [c \in Range(CategoricalColumns) \ {"Marital status"} |->
                      FittedClasses[c]]) }

\* feature_names.pkl: a list of column names.
NameList(names) == [kind |-> "list", names |-> names]

FeatureNameFiles ==
    { None,
      NameList(Columns),
      NameList(SubSeq(Columns, 1, 8)),
      NameList(Columns \o <<TargetColumn>>) }

\* scaler.pkl: a scaler fitted on n_features_in_ columns, centring each value.
Scaler(n, mean) == [kind |-> "scaler", n_features_in_ |-> n, mean_ |-> mean]

ScalerFiles == { None, Scaler(9, 1), Scaler(8, 1) }

\* best_model.pkl: a linear regressor, or a regressor that answers one value
\* whatever the row.
Regressor(intercept, coef) ==
    [kind |-> "regressor", intercept_ |-> intercept, coef_ |-> coef]
Constant(n, value) == [kind |-> "constant", n_features_in_ |-> n, value |-> value]

Coef == <<2, 2, 2, 500, 2, 2, 2, 2, 2>>

ModelFiles ==
    { None,
      Regressor(2466, Coef),
      Regressor(3966, Coef),
      Regressor(-34, Coef),
      Regressor(2466, SubSeq(Coef, 1, 8)),
      Constant(9, Num(2125)),
      Constant(9, NaN),
      Constant(9, PosInf),
      Constant(9, NegInf) }

\* Variant: a value the encoder was not fitted on is given the code -1.
LabelEncoderTransform_lenient(classes, value) ==
    IF \E i \in DOMAIN classes : classes[i] = value
    THEN [raised |-> NoException,
          code |-> PyInt((CHOOSE i \in DOMAIN classes : classes[i] = value) - 1)]
    ELSE [raised |-> NoException, code |-> PyInt(-1)]

\* LabelEncoder.transform([value])[0]: the position of the value among the
\* classes, or ValueError for a value the encoder was not fitted on.
LabelEncoderTransform(classes, value) ==
    IF \E i \in DOMAIN classes : classes[i] = value
    THEN [raised |-> NoException,
          code |-> PyInt((CHOOSE i \in DOMAIN classes : classes[i] = value) - 1)]
    ELSE [raised |-> ValueError("y contains previously unseen labels")]

\* Variant: the names the frame does not have are dropped (as reindexing on
\* the common names would).
SelectColumns_present(df, names) ==
    IF names.kind # "list" THEN [raised |-> KeyError("None")]
    ELSE [raised |-> NoException,
          df |-> [columns |-> SelectSeq(names.names,
                                        LAMBDA n : n \in Range(df.columns)),
                  cell |-> df.cell]]

\* input_df[feature_names]: the named columns in the list's order, or KeyError.
SelectColumns(df, names) ==
    IF names.kind # "list" THEN [raised |-> KeyError("None")]
    ELSE IF \E i \in DOMAIN names.names : names.names[i] \notin Range(df.columns)
    THEN [raised |-> KeyError("not in index")]
    ELSE [raised |-> NoException,
          df |-> [columns |-> names.names, cell |-> df.cell]]

\* scaler.transform(input_df): the centred row, or an error for a missing
\* scaler, a row of another width or a cell that is still a string.
ScalerTransform(sc, df) ==
    IF sc.kind # "scaler"
    THEN [raised |-> AttributeError("'NoneType' object has no attribute 'transform'")]
    ELSE IF Len(df.columns) # sc.n_features_in_
    THEN [raised |-> ValueError("X has a different number of features")]
    ELSE IF \E i \in DOMAIN df.columns : df.cell[df.columns[i]].t = "str"
    THEN [raised |-> ValueError("could not convert string to float")]
    ELSE [raised |-> NoException,
          X |-> [i \in DOMAIN df.columns |-> df.cell[df.columns[i]].v - sc.mean_]]

RECURSIVE Dot(_, _, _)
Dot(coef, X, i) == IF i = 0 THEN 0 ELSE coef[i] * X[i] + Dot(coef, X, i - 1)

\* float(model.predict(input_scaled)[0])
ModelPredict(m, X) ==
    CASE m.kind = "regressor" ->
           IF Len(X) # Len(m.coef_)
           THEN [raised |-> ValueError("X has a different number of features")]
           ELSE [raised |-> NoException,
                 score |-> Num(m.intercept_ + Dot(m.coef_, X, Len(X)))]
      [] m.kind = "constant" ->
           IF Len(X) # m.n_features_in_
           THEN [raised |-> ValueError("X has a different number of features")]
           ELSE [raised |-> NoException, score |-> m.value]
      [] OTHER ->
           [raised |-> AttributeError("'NoneType' object has no attribute 'predict'")]

----------------------------------------------------------------------------
(* Post-processing.                                                        *)

\* Variant: the score is not clamped.
clamp_missing(x) == x

\* Variant: an upper limit that is not a whole number of hundredths.
clamp_offgrid(x) == pymax(Num(0), pymin(Num(3995), x))

\* max(0.0, min(4.0, x))
clamp(x) == pymax(Num(0), pymin(Num(4000), x))

\* Variant: the thresholds tested with > for >=.
interpret_cgpa_strict(cgpa) ==
    IF FloatLt(Num(3500), cgpa)
    THEN <<"Excellent (3.50 - 4.00)",
           "Student is performing excellently! Keep up the great work.">>
    ELSE IF FloatLt(Num(3000), cgpa)
    THEN <<"Good (3.00 - 3.49)", "Student is performing well academically.">>
    ELSE IF FloatLt(Num(2500), cgpa)
    THEN <<"Average (2.50 - 2.99)",
           "Student is performing at an average level. Some improvement possible.">>
    ELSE IF FloatLt(Num(2000), cgpa)
    THEN <<"Below Average (2.00 - 2.49)",
           "Student may need academic support and intervention.">>
    ELSE <<"Poor (0.00 - 1.99)",
           "Student requires immediate academic and mental health support.">>

\* interpret_cgpa: (range_string, message), thresholds tested top-down.
interpret_cgpa(cgpa) ==
    IF FloatGe(cgpa, Num(3500))
    THEN <<"Excellent (3.50 - 4.00)",
           "Student is performing excellently! Keep up the great work.">>
    ELSE IF FloatGe(cgpa, Num(3000))
    THEN <<"Good (3.00 - 3.49)", "Student is performing well academically.">>
    ELSE IF FloatGe(cgpa, Num(2500))
    THEN <<"Average (2.50 - 2.99)",
           "Student is performing at an average level. Some improvement possible.">>
    ELSE IF FloatGe(cgpa, Num(2000))
    THEN <<"Below Average (2.00 - 2.49)",
           "Student may need academic support and intervention.">>
    ELSE <<"Poor (0.00 - 1.99)",
           "Student requires immediate academic and mental health support.">>

PredictionOutput(cgpa, range, message) ==
    [predicted_cgpa |-> cgpa, cgpa_range |-> range, message |-> message]

----------------------------------------------------------------------------
(* POST /predict.                                                          *)

NoScore == [f |-> "none"]

\* The encoding loop from the i-th key of label_encoders on: a column the
\* frame does not have is skipped, a value its encoder was not fitted on
\* raises HTTPException(400), any other value is replaced by its code.
RECURSIVE EncodeFrom(_, _, _, _)
EncodeFrom(le, i, data, df) ==
    IF i > Len(le.keys) THEN [raised |-> NoException, df |-> df]
    ELSE LET col == le.keys[i]
         IN  IF col \notin Range(df.columns) THEN EncodeFrom(le, i + 1, data, df)
             ELSE LET r == LabelEncoderTransform(le.classes_[col], str(data[col]))
                  IN  IF r.raised.type = "ValueError"
                      THEN [raised |->
                              HTTPException(400,
                                  [text |-> "Invalid value for {col}: {value}. Must be one of the categories in training data.",
                                   col |-> col, value |-> str(data[col])])]
                      ELSE EncodeFrom(le, i + 1, data,
                                      [df EXCEPT !.cell[col] = r.code])

\* for col in label_encoders.keys(): ...
EncodeCategoricals(le, data, df) ==
    IF le.kind # "dict"
    THEN [raised |-> AttributeError("'NoneType' object has no attribute 'keys'")]
    ELSE EncodeFrom(le, 1, data, df)

\* The try block of predict_cgpa: what it returns or raises, the artifacts it
\* used on the way, and the score the model gave.
predict_try(student) ==
    LET data == input_data(student)
        enc == EncodeCategoricals(label_encoders, data, DataFrame(data))
    IN  IF enc.raised.type # "none"
        THEN [raised |-> enc.raised, invoked |-> {"label_encoders"},
              score |-> NoScore]
        ELSE
        LET sel == SelectColumns(enc.df, feature_names)
        IN  IF sel.raised.type # "none"
            THEN [raised |-> sel.raised,
                  invoked |-> {"label_encoders", "feature_names"},
                  score |-> NoScore]
            ELSE
            LET sc == ScalerTransform(scaler, sel.df)
            IN  IF sc.raised.type # "none"
                THEN [raised |-> sc.raised,
                      invoked |-> {"label_encoders", "feature_names", "scaler"},
                      score |-> NoScore]
                ELSE
                LET p == ModelPredict(model, sc.X)
                    all == {"label_encoders", "feature_names", "scaler", "model"}
                IN  IF p.raised.type # "none"
                    THEN [raised |-> p.raised, invoked |-> all, score |-> NoScore]
                    ELSE LET predicted_cgpa == clamp(round2(p.score))
                             interpretation == interpret_cgpa(predicted_cgpa)
                         IN  [raised |-> NoException,
                              returned |-> PredictionOutput(predicted_cgpa,
                                                            interpretation[1],
                                                            interpretation[2]),
                              invoked |-> all, score |-> p.score]

\* Variant: no "except HTTPException: raise", so every exception becomes a 500.
except_clauses_all500(e) ==
    HTTPException(500, [text |-> "Prediction error: {str(e)}",
                        e |-> IF e.type = "HTTPException" THEN "400" ELSE e.msg])

\* The except clauses: an HTTPException is raised again as it is, any other
\* exception becomes HTTPException(500).
except_clauses(e) ==
    IF e.type = "HTTPException" THEN e
    ELSE HTTPException(500, [text |-> "Prediction error: {str(e)}", e |-> e.msg])

\* predict_cgpa, and the response the framework makes of what it returns or
\* raises.
predict_cgpa(student) ==
    LET r == predict_try(student)
        t == [invoked |-> r.invoked, raised |-> r.raised, score |-> r.score]
    IN  IF r.raised.type = "none"
        THEN [response |-> [status |-> 200, body |-> r.returned], trace |-> t]
        ELSE LET e == except_clauses(r.raised)
             IN  [response |-> [status |-> e.status_code,
                                body |-> [detail |-> e.detail]],
                  trace |-> t]

NoTrace == [invoked |-> {}, raised |-> NoException, score |-> NoScore]

\* The route: the body is validated into a StudentInput before the handler
\* runs; a body that fails is answered 422 by the framework.
post_predict(body) ==
    LET v == StudentInput(body)
    IN  IF v.ok THEN predict_cgpa(v.student)
        ELSE [response |-> [status |-> 422, body |-> [detail |-> v.errors]],
              trace |-> NoTrace]

----------------------------------------------------------------------------
(* GET / and GET /health.                                                  *)

root ==
    [response |->
        [status |-> 200,
         body |-> [message |-> "Welcome to Student Mental Health CGPA Prediction API",
                   version |-> "1.0.0",
                   endpoints |-> [predict |-> "/predict (POST)",
                                  health |-> "/health (GET)",
                                  docs |-> "/docs (Swagger UI)",
                                  redoc |-> "/redoc (ReDoc)"]]],
     trace |-> NoTrace]

\* Variant: the three flags are reported true without looking.
health_check_static ==
    [response |->
        [status |-> 200,
         body |-> [status |-> "healthy", model_loaded |-> TRUE,
                   scaler_loaded |-> TRUE, encoders_loaded |-> TRUE]],
     trace |-> NoTrace]

health_check ==
    [response |->
        [status |-> 200,
         body |-> [status |-> "healthy",
                   model_loaded |-> model # None,
                   scaler_loaded |-> scaler # None,
                   encoders_loaded |-> label_encoders # None]],
     trace |-> NoTrace]

----------------------------------------------------------------------------
(* The process.                                                            *)

NoRequest == [route |-> "none"]
NoResponse == [status |-> 0]

Init ==
    /\ pc = "load_model"
    /\ model = Unbound
    /\ scaler = Unbound
    /\ label_encoders = Unbound
    /\ feature_names = Unbound
    /\ request = NoRequest
    /\ response = NoResponse
    /\ trace = NoTrace
    /\ repeated = FALSE

\* Variant: the except clause prints and does not raise, so the module runs on
\* to its end.
OnLoadError_swallowed == pc' = "serving"

\* except Exception: print, then raise: the import fails and nothing is served.
OnLoadError == pc' = "crashed"

\* model = joblib.load('best_model.pkl')
LoadModel ==
    /\ pc = "load_model"
    /\ \/ \E file \in ModelFiles :
            /\ model' = file
            /\ pc' = "load_scaler"
       \/ OnLoadError /\ UNCHANGED model
    /\ UNCHANGED <<scaler, label_encoders, feature_names, request, response, trace, repeated>>

\* scaler = joblib.load('scaler.pkl')
LoadScaler ==
    /\ pc = "load_scaler"
    /\ \/ \E file \in ScalerFiles :
            /\ scaler' = file
            /\ pc' = "load_label_encoders"
       \/ OnLoadError /\ UNCHANGED scaler
    /\ UNCHANGED <<model, label_encoders, feature_names, request, response, trace, repeated>>

\* label_encoders = joblib.load('label_encoders.pkl')
LoadLabelEncoders ==
    /\ pc = "load_label_encoders"
    /\ \/ \E file \in LabelEncoderFiles :
            /\ label_encoders' = file
            /\ pc' = "load_feature_names"
       \/ OnLoadError /\ UNCHANGED label_encoders
    /\ UNCHANGED <<model, scaler, feature_names, request, response, trace, repeated>>

\* feature_names = joblib.load('feature_names.pkl'); the module then runs to
\* its end and the application is served.
LoadFeatureNames ==
    /\ pc = "load_feature_names"
    /\ \/ \E file \in FeatureNameFiles :
            /\ feature_names' = file
            /\ pc' = "serving"
       \/ OnLoadError /\ UNCHANGED feature_names
    /\ UNCHANGED <<model, scaler, label_encoders, request, response, trace, repeated>>

\* The handler of each route.
Handle(req) ==
    CASE req.route = "GET /" -> root
      [] req.route = "GET /health" -> health_check
      [] OTHER -> post_predict(req.body)

\* Variant: the encoders are refitted on the values of the request
\* (fit_transform for transform).
Serve_refit(req) ==
    LET out == Handle(req)
        encodes == /\ req.route = "POST /predict"
                   /\ StudentInput(req.body).ok
                   /\ label_encoders.kind = "dict"
    IN  /\ request' = req
        /\ response' = out.response
        /\ trace' = out.trace
        /\ repeated' = (request = req)
        /\ label_encoders' =
              IF encodes
              THEN LET data == input_data(StudentInput(req.body).student)
                   IN  [label_encoders EXCEPT !.classes_ =
                           [c \in DOMAIN @ |->
                               IF c \in Range(Columns) THEN <<str(data[c])>>
                               ELSE @[c]]]
              ELSE label_encoders
        /\ UNCHANGED <<pc, model, scaler, feature_names>>

\* One request served from arrival to response: the handlers only read the
\* artifacts.
Serve(req) ==
    LET out == Handle(req)
    IN  /\ request' = req
        /\ response' = out.response
        /\ trace' = out.trace
        /\ repeated' = (request = req)
        /\ UNCHANGED <<pc, model, scaler, label_encoders, feature_names>>

GetRoot == pc = "serving" /\ request = NoRequest /\ Serve([route |-> "GET /"])

GetHealth == pc = "serving" /\ request = NoRequest /\ Serve([route |-> "GET /health"])

PostPredict ==
    /\ pc = "serving"
    /\ request = NoRequest
    /\ \E body \in Bodies : Serve([route |-> "POST /predict", body |-> body])

\* The client submits the identical request once more.
Repeat == pc = "serving" /\ request # NoRequest /\ Serve(request)

\* The client is done with the response; nothing of the exchange is kept.
Forget ==
    /\ pc = "serving"
    /\ request # NoRequest
    /\ request' = NoRequest
    /\ response' = NoResponse
    /\ trace' = NoTrace
    /\ repeated' = FALSE
    /\ UNCHANGED <<pc, model, scaler, label_encoders, feature_names>>

Next ==
    \/ LoadModel
    \/ LoadScaler
    \/ LoadLabelEncoders
    \/ LoadFeatureNames
    \/ GetRoot
    \/ GetHealth
    \/ PostPredict
    \/ Repeat
    \/ Forget

Spec == Init /\ [][Next]_vars

----------------------------------------------------------------------------
(* Properties.                                                             *)

Predicted == request.route = "POST /predict"
Returned200 == Predicted /\ response.status = 200

\* The values of the frame's row for the request in hand (schema-valid).
RequestData == input_data([request.body EXCEPT !.age = @.v])

\* Every score a model returns is one whose rounding the thousandths decide.
ScoresAreExact == ExactScore(trace.score)

\* C1: a 200 response of POST /predict carries a predicted_cgpa that is a
\* whole number of hundredths between 0.00 and 4.00, whatever score the model
\* returned.
C1_CgpaInRange ==
    Returned200 =>
        /\ response.body.predicted_cgpa.f = "num"
        /\ response.body.predicted_cgpa.v >= 0
        /\ response.body.predicted_cgpa.v <= 4000
        /\ response.body.predicted_cgpa.v % 10 = 0

\* The model returned a score above 4.00 that is no whole number of hundredths.
C1_Witness ==
    /\ Returned200
    /\ trace.score.f = "num"
    /\ trace.score.v > 4000
    /\ trace.score.v % 10 # 0
    /\ response.body.predicted_cgpa = Num(4000)

\* The five bands as their labels print them, in hundredths closed at both ends.
BandTable ==
    { [lo |-> 3500, hi |-> 4000, label |-> "Excellent (3.50 - 4.00)",
       message |-> "Student is performing excellently! Keep up the great work."],
      [lo |-> 3000, hi |-> 3490, label |-> "Good (3.00 - 3.49)",
       message |-> "Student is performing well academically."],
      [lo |-> 2500, hi |-> 2990, label |-> "Average (2.50 - 2.99)",
       message |-> "Student is performing at an average level. Some improvement possible."],
      [lo |-> 2000, hi |-> 2490, label |-> "Below Average (2.00 - 2.49)",
       message |-> "Student may need academic support and intervention."],
      [lo |-> 0, hi |-> 1990, label |-> "Poor (0.00 - 1.99)",
       message |-> "Student requires immediate academic and mental health support."] }

\* C2: in a 200 response of POST /predict, cgpa_range and message are the row
\* of the band table that the returned predicted_cgpa falls in.
C2_BandMatchesTable ==
    Returned200 =>
        \E row \in BandTable :
            /\ response.body.predicted_cgpa.v >= row.lo
            /\ response.body.predicted_cgpa.v <= row.hi
            /\ response.body.cgpa_range = row.label
            /\ response.body.message = row.message

\* A score below 3.50 that rounds to 3.50 exactly is answered "Excellent".
C2_Witness ==
    /\ Returned200
    /\ trace.score.f = "num"
    /\ trace.score.v < 3500
    /\ response.body.predicted_cgpa = Num(3500)
    /\ response.body.cgpa_range = "Excellent (3.50 - 4.00)"

\* The schema, as the contract states it.
SchemaHolds(b) ==
    /\ b.age.t = "int"
    /\ b.age.v >= 18
    /\ b.age.v <= 30
    /\ Len(b.course) >= 2
    /\ Len(b.course) <= 100
    /\ b.gender \in {"Male", "Female"}
    /\ b.year \in {"year 1", "year 2", "year 3", "year 4"}
    /\ \A f \in {"marital_status", "depression", "anxiety", "panic_attack",
                 "treatment"} : b[f] \in {"Yes", "No"}

\* The columns that have an encoder and whose value in the request the
\* encoder was not fitted on.
Unseen(le, data) ==
    {c \in Range(le.keys) \cap Range(Columns) :
        \A i \in DOMAIN le.classes_[c] : le.classes_[c][i] # str(data[c])}

\* C3: a schema-valid request with a value some encoder was not fitted on is
\* answered 400, the detail naming such a column and its value, and neither
\* the scaler nor the model is used.
C3_UnseenIs400 ==
    (Predicted /\ SchemaHolds(request.body) /\ label_encoders.kind = "dict"
        /\ Unseen(label_encoders, RequestData) # {}) =>
        /\ response.status = 400
        /\ response.body.detail.col \in Unseen(label_encoders, RequestData)
        /\ response.body.detail.value = str(RequestData[response.body.detail.col])
        /\ "scaler" \notin trace.invoked
        /\ "model" \notin trace.invoked

\* Two columns of one request hold values their encoders were not fitted on.
C3_Witness ==
    /\ Predicted
    /\ SchemaHolds(request.body)
    /\ label_encoders.kind = "dict"
    /\ Cardinality(Unseen(label_encoders, RequestData)) = 2
    /\ response.status = 400

\* C4: a POST /predict request reaches the encoders exactly when its nine
\* fields satisfy the schema; any other request is answered 422 with no
\* artifact used.
C4_SchemaGate ==
    Predicted =>
        /\ SchemaHolds(request.body) <=> "label_encoders" \in trace.invoked
        /\ ~ SchemaHolds(request.body) =>
               (response.status = 422 /\ trace.invoked = {})

\* A body one year too old with a course one character too long is rejected.
C4_Witness ==
    /\ Predicted
    /\ request.body.age = PyInt(31)
    /\ Len(request.body.course) = 101
    /\ response.status = 422
    /\ response.body.detail = {"age", "course"}

\* C5: the process serves, and a request is handled, only with all four
\* artifacts loaded; after a failed load nothing is ever served.
C5_ServeOnlyLoaded ==
    /\ (pc = "serving" \/ request # NoRequest) =>
           (model # Unbound /\ scaler # Unbound /\ label_encoders # Unbound
            /\ feature_names # Unbound)
    /\ pc = "crashed" => (request = NoRequest /\ response = NoResponse)

\* The fourth load failed after three had succeeded.
C5_Witness ==
    /\ pc = "crashed"
    /\ model # Unbound
    /\ scaler # Unbound
    /\ label_encoders # Unbound
    /\ feature_names = Unbound

\* C6: no request changes an artifact, and the identical request submitted
\* again is answered identically.
C6_Idempotent ==
    [][/\ pc = "serving" =>
            <<model, scaler, label_encoders, feature_names>>' =
                <<model, scaler, label_encoders, feature_names>>
       /\ (request # NoRequest /\ request' = request) => response' = response]_vars

\* A request that was answered 400 has been submitted a second time.
C6_Witness == Predicted /\ repeated /\ response.status = 400

\* C7: a schema-valid request ends in 200 exactly when nothing was raised,
\* in 400 with the encoder stage's detail unchanged exactly when that stage
\* raised, and in 500 with a detail for any other exception.
C7_FailuresAreErrors ==
    (Predicted /\ response.status # 422) =>
        /\ response.status \in {200, 400, 500}
        /\ response.status = 200 <=> trace.raised.type = "none"
        /\ response.status = 200 =>
               (trace.score # NoScore
                /\ trace.invoked = {"label_encoders", "feature_names", "scaler",
                                    "model"})
        /\ response.status = 400 <=> trace.raised.type = "HTTPException"
        /\ response.status = 400 =>
               (/\ trace.raised.status_code = 400
                /\ response.body.detail = trace.raised.detail
                /\ trace.invoked = {"label_encoders"}
                /\ Unseen(label_encoders, RequestData) # {})
        /\ response.status = 500 =>
               (/\ trace.raised.type \in {"AttributeError", "KeyError", "ValueError"}
                /\ response.body.detail.e = trace.raised.msg)

\* The model's inference failed and the request was answered 500.
C7_Witness ==
    /\ Predicted
    /\ response.status = 500
    /\ trace.invoked = {"label_encoders", "feature_names", "scaler", "model"}
    /\ trace.raised.type = "ValueError"

Health == request.route = "GET /health"

ArtifactNames == {"model", "scaler", "label_encoders", "feature_names"}

\* C8 as stated: the health response has one boolean for each of the four
\* artifacts, and each matches the load outcome (served means all four loaded).
C8_FourFlags ==
    Health =>
        LET flags == DOMAIN response.body \ {"status"}
        IN  /\ Cardinality(flags) = Cardinality(ArtifactNames)
            /\ \A k \in flags : response.body[k] = TRUE

\* C8 (amended): the health response has three booleans, for the model, the
\* scaler and the label encoders, each true exactly when the object bound at
\* startup is not None; there is none for the feature names.
C8_ThreeFlags ==
    Health =>
        /\ response.status = 200
        /\ DOMAIN response.body =
               {"status", "model_loaded", "scaler_loaded", "encoders_loaded"}
        /\ response.body.status = "healthy"
        /\ response.body.model_loaded = (model.kind \notin {"None", "unbound"})
        /\ response.body.scaler_loaded = (scaler.kind \notin {"None", "unbound"})
        /\ response.body.encoders_loaded =
               (label_encoders.kind \notin {"None", "unbound"})

\* The model file held None: its flag is false, the other two are true.
C8_Witness ==
    /\ Health
    /\ ~ response.body.model_loaded
    /\ response.body.scaler_loaded
    /\ response.body.encoders_loaded

\* The loaded feature names are not, as a set, the nine mapper keys.
NamesDrift ==
    feature_names.kind # "list" \/ Range(feature_names.names) # Range(Columns)

\* The encoder mapping has a column that is not among the mapper keys.
EncoderDrift ==
    label_encoders.kind = "dict"
    /\ \E i \in DOMAIN label_encoders.keys :
          label_encoders.keys[i] \notin Range(Columns)

\* C9 as stated: with either drift no POST /predict request returns 200.
C9_DriftIsFatal == (Predicted /\ (NamesDrift \/ EncoderDrift)) => response.status # 200

\* C9 (amended): when the loaded feature names hold a name that is not one of
\* the nine mapper keys, no POST /predict request returns 200.
C9_ExtraNameIsFatal ==
    (Predicted /\ feature_names.kind = "list"
        /\ \E i \in DOMAIN feature_names.names :
              feature_names.names[i] \notin Range(Columns)) =>
        response.status \in {400, 422, 500}

\* A valid request whose values are all known fails on the extra name.
C9_Witness ==
    /\ Predicted
    /\ feature_names.kind = "list"
    /\ TargetColumn \in Range(feature_names.names)
    /\ response.status = 500
    /\ trace.raised.type = "KeyError"
    /\ trace.invoked = {"label_encoders", "feature_names"}

\* Scores beyond both ends of the scale by ScoreSlack thousandths, and the
\* three non-numbers.
ScoreSlack == 600

Scores ==
    {x \in {Num(k) : k \in (0 - ScoreSlack) .. (4000 + ScoreSlack)} : ExactScore(x)}
        \cup {NaN, PosInf, NegInf}

\* The two orders of rounding and clamping differ on the score: in the value
\* returned or in the band.
OrderMatters(x) ==
    \/ clamp(round2(x)) # round2(clamp(x))
    \/ interpret_cgpa(clamp(round2(x))) # interpret_cgpa(round2(clamp(x)))

\* C10 as stated: the service, once it serves, has a score on which the two
\* orders differ.
C10_OrderMatters == pc = "serving" => \E x \in Scores : OrderMatters(x)

\* C10 (amended): on every score the two orders agree; the value and the band
\* of a 200 response are those that clamping first and rounding second give.
C10_OrderIrrelevant ==
    Returned200 =>
        /\ ~ OrderMatters(trace.score)
        /\ response.body.predicted_cgpa = round2(clamp(trace.score))
        /\ <<response.body.cgpa_range, response.body.message>> =
               interpret_cgpa(round2(clamp(trace.score)))

\* The model returned a score below 0.00: rounded to -0.01, then clamped.
C10_Witness ==
    /\ Returned200
    /\ trace.score.f = "num"
    /\ round2(trace.score) = Num(-10)
    /\ response.body.predicted_cgpa = Num(0)
    /\ response.body.cgpa_range = "Poor (0.00 - 1.99)"

====
